---- MODULE Spec2Model ----
(***************************************************************************)
(* A model of vtzero's geometry decoder (geometry.hpp), layer reader       *)
(* (layer.hpp) and polygon feature builder (builder.hpp).                  *)
(*                                                                         *)
(* SpecGeom  : one call of decode_point_geometry,                          *)
(*             decode_linestring_geometry or decode_polygon_geometry on a  *)
(*             command stream.  The stream is the environment's: it is     *)
(*             revealed integer by integer as the decoder's iterator       *)
(*             reaches it, which is the same as fixing it beforehand       *)
(*             because the iterator only moves forward.                    *)
(* SpecLayer : construction of a layer from a record and the calls on its  *)
(*             key and value tables.                                       *)
(* SpecHole  : decode_polygon_geometry on a square ring with a square      *)
(*             ring inside it.                                             *)
(* SpecFeatures : construction of a layer and the calls that read its      *)
(*             features, next to the calls on its tables.                  *)
(* SpecBuilder : the life of one polygon_feature_builder on a layer        *)
(*             builder.                                                    *)
(***************************************************************************)
EXTENDS Integers, Sequences, FiniteSets, TLC

(***************************************************************************)
(* Bounds of the model.                                                    *)
(***************************************************************************)
\* longest command stream (number of 32 bit integers)
MaxLen == 12
\* largest count packed into a command integer of the stream
MaxCount == 2
\* longest layer record (number of fields)
MaxFields == 3
\* largest point count given to add_ring
MaxRingPoints == 4
\* most rings added to one polygon feature
MaxRings == 1
\* most properties added to one feature
MaxProps == 1

VARIABLES
    \* ---- geometry decoder ----
    geom_type,      \* which decode_*_geometry function is running
    strict,         \* its strict argument
    data,           \* the command stream as far as it has been revealed
    complete,       \* TRUE when data is the whole stream (m_end is known)
    decoder,        \* the basic_geometry_decoder object
    pc,             \* position inside the decode function
    first_point,    \* local of decode_linestring_geometry
    start_point,    \* locals of decode_polygon_geometry
    last_point,
    sum,
    calls,          \* the callbacks the handler has received, in order
    result,         \* "running", "ok", or the exception that was thrown
    \* ---- layer reader ----
    m_data,         \* the layer record: its fields in wire order
    layer_state,    \* "unconstructed", "valid", or the constructor's exception
    thrown_version, \* the version a version_exception carries
    layer,          \* the members of the layer object
    table_passes,   \* how often initialize_tables has run (history variable)
    layer_ret,      \* what the last call on the layer returned
    layer_arg,      \* the argument of the last call on the layer (0 without);
                    \* of reset_feature: how many next_feature calls it
                    \* followed (history)
    returned,       \* what next_feature returned since construction or the
                    \* last reset_feature, in order (history variable)
    \* ---- feature builder ----
    lbuilder,       \* the layer builder: its buffer and its feature count
    fbuilder,       \* the polygon_feature_builder object
    buffer_before,  \* the layer builder's buffer when the feature builder was
                    \* created (history variable)
    builder_ret,    \* the last call on the feature builder and its outcome
    rings_given     \* the rings of the polygon that is built and decoded
                    \* again: the points given for each and how it was closed

geomVars == <<geom_type, strict, data, complete, decoder, pc, first_point,
              start_point, last_point, sum, calls, result>>

layerVars == <<m_data, layer_state, thrown_version, layer, table_passes, layer_ret,
               layer_arg, returned>>

builderVars == <<lbuilder, fbuilder, buffer_before, builder_ret, rings_given>>

vars == <<geomVars, layerVars, builderVars>>

(***************************************************************************)
(* geometry.hpp: points and command integers                               *)
(***************************************************************************)
point(x, y) == [x |-> x, y |-> y]

command_integer(id, count) == (id % 8) + (count * 8)

command_move_to(count) == command_integer(1, count)

command_line_to(count) == command_integer(2, count)

command_close_path(count) == command_integer(7, count)

get_command_id(ci) == ci % 8

get_command_count(ci) == ci \div 8

det_swapped(a, b) == b.x * a.y - a.x * b.y

det(a, b) == a.x * b.y - b.x * a.y

\* protozero::decode_zigzag32 as called by next_point
decode_zigzag32(v) == IF v % 2 = 0 THEN v \div 2 ELSE -((v + 1) \div 2)

\* the inverse, used to write the streams of the model
encode_zigzag32(n) == IF n >= 0 THEN 2 * n ELSE -2 * n - 1

(***************************************************************************)
(* The integers a stream of the model is made of: what stands where the    *)
(* decoder reads a command, and what stands where it reads a parameter.    *)
(***************************************************************************)
CommandIds == {0, 1, 2, 7}

CommandInts == {command_integer(id, c) : id \in CommandIds, c \in 0..MaxCount}

\* the parameter deltas of the model's streams
Deltas == {-1, 0, 1}

ParamInts == {encode_zigzag32(n) : n \in Deltas}

AnyInts == CommandInts \cup ParamInts

\* The stream as the decoder sees it when it looks up to `need` integers
\* ahead of what it has consumed: either the stream goes on with integers
\* of S, or it ends before `need` more integers.
Reveal(need, S) ==
    IF complete
    THEN {[data |-> data, complete |-> TRUE]}
    ELSE LET room == MaxLen - Len(data)
             top == IF need < room THEN need ELSE room
         IN {[data |-> data \o s, complete |-> Len(s) < need] :
                s \in UNION {[1..k -> S] : k \in 0..top}}

(***************************************************************************)
(* basic_geometry_decoder                                                  *)
(***************************************************************************)
NewDecoder == [m_it |-> 0, m_cursor |-> point(0, 0), m_command_id |-> 0, m_count |-> 0]

\* done(): m_it == m_end on the stream d
done_no_check(dec, d) == TRUE

done(dec, d) == dec.m_it = Len(d)

\* spec 4.3.3.3: the count a ClosePath command integer must carry
close_path_count_any(ci) == TRUE

close_path_count_ok(ci) == get_command_count(ci) = 1

\* next_command(expected_command) on the stream d: the decoder afterwards,
\* the returned boolean and the exception thrown ("none" if none)
next_command(dec, d, expected_command) ==
    IF dec.m_count # 0
    THEN [dec |-> dec, ret |-> FALSE, exc |-> "assert"]
    ELSE IF dec.m_it = Len(d)
    THEN [dec |-> dec, ret |-> FALSE, exc |-> "none"]
    ELSE LET ci == d[dec.m_it + 1]
             id == get_command_id(ci)
         IN IF id = command_close_path(0) /\ ~close_path_count_ok(ci)
            THEN [dec |-> [dec EXCEPT !.m_command_id = id],
                  ret |-> FALSE, exc |-> "geometry_exception"]
            ELSE LET d1 == [dec EXCEPT !.m_command_id = id,
                                       !.m_count = IF id = command_close_path(0)
                                                   THEN @
                                                   ELSE get_command_count(ci)]
                 IN IF id # expected_command
                    THEN [dec |-> d1, ret |-> FALSE, exc |-> "geometry_exception"]
                    ELSE [dec |-> [d1 EXCEPT !.m_it = @ + 1],
                          ret |-> TRUE, exc |-> "none"]

\* spec 4.3.3.2: the strict-mode test of next_point on the deltas x, y
consecutive_equal_any_command(is_strict, command_id, x, y) ==
    is_strict /\ x = 0 /\ y = 0

consecutive_equal(is_strict, command_id, x, y) ==
    is_strict /\ command_id = command_line_to(0) /\ x = 0 /\ y = 0

\* next_point() on the stream d: the decoder afterwards, the returned point
\* and the exception thrown ("none" if none)
next_point_no_cursor(dec, d, is_strict) ==
    IF dec.m_count <= 0
    THEN [dec |-> dec, ret |-> dec.m_cursor, exc |-> "assert"]
    ELSE IF Len(d) - dec.m_it < 2
    THEN [dec |-> dec, ret |-> dec.m_cursor, exc |-> "geometry_exception"]
    ELSE LET x == decode_zigzag32(d[dec.m_it + 1])
             y == decode_zigzag32(d[dec.m_it + 2])
             d1 == [dec EXCEPT !.m_it = @ + 2]
         IN IF consecutive_equal(is_strict, dec.m_command_id, x, y)
            THEN [dec |-> d1, ret |-> dec.m_cursor, exc |-> "geometry_exception"]
            ELSE [dec |-> [d1 EXCEPT !.m_count = @ - 1],
                  ret |-> point(x, y), exc |-> "none"]

next_point_keeps_count(dec, d, is_strict) ==
    IF dec.m_count <= 0
    THEN [dec |-> dec, ret |-> dec.m_cursor, exc |-> "assert"]
    ELSE IF Len(d) - dec.m_it < 2
    THEN [dec |-> dec, ret |-> dec.m_cursor, exc |-> "geometry_exception"]
    ELSE LET x == decode_zigzag32(d[dec.m_it + 1])
             y == decode_zigzag32(d[dec.m_it + 2])
             d1 == [dec EXCEPT !.m_it = @ + 2]
         IN IF consecutive_equal(is_strict, dec.m_command_id, x, y)
            THEN [dec |-> d1, ret |-> dec.m_cursor, exc |-> "geometry_exception"]
            ELSE LET cur == point(dec.m_cursor.x + x, dec.m_cursor.y + y)
                 IN [dec |-> [d1 EXCEPT !.m_cursor = cur], ret |-> cur, exc |-> "none"]

next_point_move_to_absolute(dec, d, is_strict) ==
    IF dec.m_count <= 0
    THEN [dec |-> dec, ret |-> dec.m_cursor, exc |-> "assert"]
    ELSE IF Len(d) - dec.m_it < 2
    THEN [dec |-> dec, ret |-> dec.m_cursor, exc |-> "geometry_exception"]
    ELSE LET x == decode_zigzag32(d[dec.m_it + 1])
             y == decode_zigzag32(d[dec.m_it + 2])
             d1 == [dec EXCEPT !.m_it = @ + 2]
         IN IF consecutive_equal(is_strict, dec.m_command_id, x, y)
            THEN [dec |-> d1, ret |-> dec.m_cursor, exc |-> "geometry_exception"]
            ELSE LET cur == IF dec.m_command_id = command_move_to(0)
                            THEN point(x, y)
                            ELSE point(dec.m_cursor.x + x, dec.m_cursor.y + y)
                 IN [dec |-> [d1 EXCEPT !.m_cursor = cur, !.m_count = @ - 1],
                     ret |-> cur, exc |-> "none"]

next_point(dec, d, is_strict) ==
    IF dec.m_count <= 0
    THEN [dec |-> dec, ret |-> dec.m_cursor, exc |-> "assert"]
    ELSE IF Len(d) - dec.m_it < 2
    THEN [dec |-> dec, ret |-> dec.m_cursor, exc |-> "geometry_exception"]
    ELSE LET x == decode_zigzag32(d[dec.m_it + 1])
             y == decode_zigzag32(d[dec.m_it + 2])
             d1 == [dec EXCEPT !.m_it = @ + 2]
         IN IF consecutive_equal(is_strict, dec.m_command_id, x, y)
            THEN [dec |-> d1, ret |-> dec.m_cursor, exc |-> "geometry_exception"]
            ELSE LET cur == point(dec.m_cursor.x + x, dec.m_cursor.y + y)
                 IN [dec |-> [d1 EXCEPT !.m_cursor = cur, !.m_count = @ - 1],
                     ret |-> cur, exc |-> "none"]

(***************************************************************************)
(* The handler: every callback is recorded.                                *)
(***************************************************************************)
Call(op, n, p, outer) == [op |-> op, n |-> n, p |-> p, outer |-> outer]

NoPoint == point(0, 0)

Throw(e) == /\ result' = e
            /\ pc' = "done"

Return == /\ result' = "ok"
          /\ pc' = "done"

Reads(r, c) == /\ data' = r.data
               /\ complete' = r.complete
               /\ decoder' = c.dec

locals == <<first_point, start_point, last_point, sum>>

(***************************************************************************)
(* decode_point_geometry                                                   *)
(***************************************************************************)
PointMoveTo ==
    /\ pc = "point_move_to"
    /\ \E r \in Reveal(1, CommandInts) :
         LET c == next_command(decoder, r.data, command_move_to(0))
         IN /\ Reads(r, c)
            /\ IF c.exc # "none"
               THEN Throw(c.exc) /\ UNCHANGED calls
               ELSE IF ~c.ret
               THEN Throw("geometry_exception") /\ UNCHANGED calls
               ELSE IF c.dec.m_count = 0
               THEN Throw("geometry_exception") /\ UNCHANGED calls
               ELSE /\ calls' = Append(calls, Call("points_begin", c.dec.m_count, NoPoint, FALSE))
                    /\ pc' = "point_points"
                    /\ UNCHANGED result
    /\ UNCHANGED <<layerVars, builderVars, geom_type, strict, locals>>

PointPoint ==
    /\ pc = "point_points"
    /\ decoder.m_count > 0
    /\ \E r \in Reveal(2, ParamInts) :
         LET c == next_point(decoder, r.data, strict)
         IN /\ Reads(r, c)
            /\ IF c.exc # "none"
               THEN Throw(c.exc) /\ UNCHANGED calls
               ELSE /\ calls' = Append(calls, Call("points_point", 0, c.ret, FALSE))
                    /\ UNCHANGED <<pc, result>>
    /\ UNCHANGED <<layerVars, builderVars, geom_type, strict, locals>>

PointEnd ==
    /\ pc = "point_points"
    /\ decoder.m_count = 0
    /\ \E r \in Reveal(1, AnyInts) :
         /\ data' = r.data
         /\ complete' = r.complete
         /\ IF ~done(decoder, r.data)
            THEN Throw("geometry_exception") /\ UNCHANGED calls
            ELSE /\ calls' = Append(calls, Call("points_end", 0, NoPoint, FALSE))
                 /\ Return
    /\ UNCHANGED <<layerVars, builderVars, geom_type, strict, decoder, locals>>

(***************************************************************************)
(* decode_linestring_geometry                                              *)
(***************************************************************************)
LinestringMoveToAnyCount ==
    /\ pc = "linestring_move_to"
    /\ \E r \in Reveal(1, CommandInts) :
         LET c == next_command(decoder, r.data, command_move_to(0))
         IN /\ Reads(r, c)
            /\ IF c.exc # "none"
               THEN Throw(c.exc)
               ELSE IF ~c.ret
               THEN Return
               ELSE IF c.dec.m_count = 0
               THEN Throw("geometry_exception")
               ELSE pc' = "linestring_first" /\ UNCHANGED result
    /\ UNCHANGED <<layerVars, builderVars, geom_type, strict, locals, calls>>

LinestringMoveTo ==
    /\ pc = "linestring_move_to"
    /\ \E r \in Reveal(1, CommandInts) :
         LET c == next_command(decoder, r.data, command_move_to(0))
         IN /\ Reads(r, c)
            /\ IF c.exc # "none"
               THEN Throw(c.exc)
               ELSE IF ~c.ret
               THEN Return
               ELSE IF c.dec.m_count # 1
               THEN Throw("geometry_exception")
               ELSE pc' = "linestring_first" /\ UNCHANGED result
    /\ UNCHANGED <<layerVars, builderVars, geom_type, strict, locals, calls>>

LinestringFirst ==
    /\ pc = "linestring_first"
    /\ \E r \in Reveal(2, ParamInts) :
         LET c == next_point(decoder, r.data, strict)
         IN /\ Reads(r, c)
            /\ IF c.exc # "none"
               THEN Throw(c.exc) /\ UNCHANGED first_point
               ELSE /\ first_point' = c.ret
                    /\ pc' = "linestring_line_to"
                    /\ UNCHANGED result
    /\ UNCHANGED <<layerVars, builderVars, geom_type, strict, start_point, last_point, sum, calls>>

LinestringLineTo ==
    /\ pc = "linestring_line_to"
    /\ \E r \in Reveal(1, CommandInts) :
         LET c == next_command(decoder, r.data, command_line_to(0))
         IN /\ Reads(r, c)
            /\ IF c.exc # "none"
               THEN Throw(c.exc) /\ UNCHANGED calls
               ELSE IF ~c.ret
               THEN Throw("geometry_exception") /\ UNCHANGED calls
               ELSE IF c.dec.m_count = 0
               THEN Throw("geometry_exception") /\ UNCHANGED calls
               ELSE /\ calls' = calls \o
                         <<Call("linestring_begin", c.dec.m_count + 1, NoPoint, FALSE),
                           Call("linestring_point", 0, first_point, FALSE)>>
                    /\ pc' = "linestring_points"
                    /\ UNCHANGED result
    /\ UNCHANGED <<layerVars, builderVars, geom_type, strict, locals>>

LinestringPoint ==
    /\ pc = "linestring_points"
    /\ decoder.m_count > 0
    /\ \E r \in Reveal(2, ParamInts) :
         LET c == next_point(decoder, r.data, strict)
         IN /\ Reads(r, c)
            /\ IF c.exc # "none"
               THEN Throw(c.exc) /\ UNCHANGED calls
               ELSE /\ calls' = Append(calls, Call("linestring_point", 0, c.ret, FALSE))
                    /\ UNCHANGED <<pc, result>>
    /\ UNCHANGED <<layerVars, builderVars, geom_type, strict, locals>>

LinestringEnd ==
    /\ pc = "linestring_points"
    /\ decoder.m_count = 0
    /\ calls' = Append(calls, Call("linestring_end", 0, NoPoint, FALSE))
    /\ pc' = "linestring_move_to"
    /\ UNCHANGED <<layerVars, builderVars, geom_type, strict, data, complete, decoder, locals, result>>

(***************************************************************************)
(* decode_polygon_geometry                                                 *)
(***************************************************************************)
PolygonMoveTo ==
    /\ pc = "polygon_move_to"
    /\ \E r \in Reveal(1, CommandInts) :
         LET c == next_command(decoder, r.data, command_move_to(0))
         IN /\ Reads(r, c)
            /\ IF c.exc # "none"
               THEN Throw(c.exc)
               ELSE IF ~c.ret
               THEN Return
               ELSE IF c.dec.m_count # 1
               THEN Throw("geometry_exception")
               ELSE pc' = "polygon_first" /\ UNCHANGED result
    /\ UNCHANGED <<layerVars, builderVars, geom_type, strict, locals, calls>>

PolygonFirst ==
    /\ pc = "polygon_first"
    /\ \E r \in Reveal(2, ParamInts) :
         LET c == next_point(decoder, r.data, strict)
         IN /\ Reads(r, c)
            /\ IF c.exc # "none"
               THEN Throw(c.exc) /\ UNCHANGED <<start_point, last_point, sum>>
               ELSE /\ start_point' = c.ret
                    /\ sum' = 0
                    /\ last_point' = c.ret
                    /\ pc' = "polygon_line_to"
                    /\ UNCHANGED result
    /\ UNCHANGED <<layerVars, builderVars, geom_type, strict, first_point, calls>>

\* spec 4.3.4.4: the LineTo counts decode_polygon_geometry refuses
ring_too_short(is_strict, count) == is_strict /\ count <= 1

PolygonLineTo ==
    /\ pc = "polygon_line_to"
    /\ \E r \in Reveal(1, CommandInts) :
         LET c == next_command(decoder, r.data, command_line_to(0))
         IN /\ Reads(r, c)
            /\ IF c.exc # "none"
               THEN Throw(c.exc) /\ UNCHANGED calls
               ELSE IF ~c.ret
               THEN Throw("geometry_exception") /\ UNCHANGED calls
               ELSE IF ring_too_short(strict, c.dec.m_count)
               THEN Throw("geometry_exception") /\ UNCHANGED calls
               ELSE /\ calls' = calls \o
                         <<Call("ring_begin", c.dec.m_count + 2, NoPoint, FALSE),
                           Call("ring_point", 0, start_point, FALSE)>>
                    /\ pc' = "polygon_points"
                    /\ UNCHANGED result
    /\ UNCHANGED <<layerVars, builderVars, geom_type, strict, locals>>

PolygonPoint ==
    /\ pc = "polygon_points"
    /\ decoder.m_count > 0
    /\ \E r \in Reveal(2, ParamInts) :
         LET c == next_point(decoder, r.data, strict)
         IN /\ Reads(r, c)
            /\ IF c.exc # "none"
               THEN Throw(c.exc) /\ UNCHANGED <<calls, last_point, sum>>
               ELSE /\ sum' = sum + det(last_point, c.ret)
                    /\ last_point' = c.ret
                    /\ calls' = Append(calls, Call("ring_point", 0, c.ret, FALSE))
                    /\ UNCHANGED <<pc, result>>
    /\ UNCHANGED <<layerVars, builderVars, geom_type, strict, first_point, start_point>>

\* the orientation decode_polygon_geometry hands to ring_end
ring_is_outer_or_flat(s) == s >= 0

ring_is_outer(s) == s > 0

PolygonCloseLeavesOpen ==
    /\ pc = "polygon_points"
    /\ decoder.m_count = 0
    /\ \E r \in Reveal(1, CommandInts) :
         LET c == next_command(decoder, r.data, command_close_path(0))
         IN /\ Reads(r, c)
            /\ IF c.exc # "none"
               THEN Throw(c.exc) /\ UNCHANGED <<calls, sum>>
               ELSE IF ~c.ret
               THEN Throw("geometry_exception") /\ UNCHANGED <<calls, sum>>
               ELSE /\ sum' = sum + det(last_point, start_point)
                    /\ calls' = calls \o
                         <<Call("ring_end", 0, NoPoint, ring_is_outer(sum'))>>
                    /\ pc' = "polygon_move_to"
                    /\ UNCHANGED result
    /\ UNCHANGED <<layerVars, builderVars, geom_type, strict, first_point, start_point, last_point>>

PolygonClose ==
    /\ pc = "polygon_points"
    /\ decoder.m_count = 0
    /\ \E r \in Reveal(1, CommandInts) :
         LET c == next_command(decoder, r.data, command_close_path(0))
         IN /\ Reads(r, c)
            /\ IF c.exc # "none"
               THEN Throw(c.exc) /\ UNCHANGED <<calls, sum>>
               ELSE IF ~c.ret
               THEN Throw("geometry_exception") /\ UNCHANGED <<calls, sum>>
               ELSE /\ sum' = sum + det(last_point, start_point)
                    /\ calls' = calls \o
                         <<Call("ring_point", 0, start_point, FALSE),
                           Call("ring_end", 0, NoPoint, ring_is_outer(sum'))>>
                    /\ pc' = "polygon_move_to"
                    /\ UNCHANGED result
    /\ UNCHANGED <<layerVars, builderVars, geom_type, strict, first_point, start_point, last_point>>


(***************************************************************************)
(* layer.hpp: the layer record                                             *)
(*                                                                         *)
(* A record is the sequence of its fields.  A field has a tag, a wire      *)
(* type and a payload: the number of a varint field, the bytes of a        *)
(* length-delimited field, and for a features field the fields of the      *)
(* feature message.                                                        *)
(***************************************************************************)
Field(tag, type, varint, bytes, msg) ==
    [tag |-> tag, type |-> type, varint |-> varint, bytes |-> bytes, msg |-> msg]

\* the feature messages of the model: without an id field, with id 7
FeatureMsgs == {<<>>, <<Field("id", "varint", 7, <<>>, <<>>)>>}

LayerFields ==
    {Field("version", "varint", v, <<>>, <<>>) : v \in 0..3}
    \cup {Field("name", "length_delimited", 0, n, <<>>) : n \in {<<110>>, <<>>}}
    \cup {Field("features", "length_delimited", 0, <<>>, f) : f \in FeatureMsgs}
    \cup {Field("keys", "length_delimited", 0, <<k>>, <<>>) : k \in {97, 98}}
    \cup {Field("values", "length_delimited", 0, <<v>>, <<>>) : v \in {120, 121}}
    \cup {Field("extent", "varint", e, <<>>, <<>>) : e \in {4096, 0}}
    \cup {Field("unknown", "varint", 0, <<>>, <<>>)}
    \cup {Field("name", "varint", 0, <<>>, <<>>)}

LayerRecords == UNION {[1..n -> LayerFields] : n \in 0..MaxFields}

\* the feature messages of the records whose features are read: those above,
\* one with id 4, one with two id fields
IdFeatureMsgs ==
    FeatureMsgs
    \cup {<<Field("id", "varint", 4, <<>>, <<>>)>>,
          <<Field("id", "varint", 4, <<>>, <<>>), Field("id", "varint", 7, <<>>, <<>>)>>}

\* the fields of the records whose features are read
FeatureLayerFields ==
    {Field("name", "length_delimited", 0, <<110>>, <<>>)}
    \cup {Field("features", "length_delimited", 0, <<>>, f) : f \in IdFeatureMsgs}
    \cup {Field("keys", "length_delimited", 0, <<97>>, <<>>)}
    \cup {Field("values", "length_delimited", 0, <<120>>, <<>>)}

FeatureLayerRecords == UNION {[1..n -> FeatureLayerFields] : n \in 0..MaxFields}

\* a layer "n" with three features whose ids are 4, 7 and 11
FeaturesLayer ==
    <<Field("name", "length_delimited", 0, <<110>>, <<>>),
      Field("features", "length_delimited", 0, <<>>, <<Field("id", "varint", 4, <<>>, <<>>)>>),
      Field("features", "length_delimited", 0, <<>>, <<Field("id", "varint", 7, <<>>, <<>>)>>),
      Field("features", "length_delimited", 0, <<>>, <<Field("id", "varint", 11, <<>>, <<>>)>>)>>

\* the ids looked up with get_feature_by_id
LookupIds == {4, 7, 99}

\* protozero::tag_and_type of the field the reader stands on
tag_and_type(f) == <<f.tag, f.type>>

\* a data_view: a null pointer, or the bytes it points to
data_view(bytes) == [null |-> FALSE, bytes |-> bytes]

NullView == [null |-> TRUE, bytes |-> <<>>]

\* the members of a layer as their default member initializers leave them
NewLayer ==
    [m_version |-> 1, m_extent |-> 4096, m_num_features |-> 0, m_name |-> NullView,
     m_layer_reader |-> 0, m_key_table |-> <<>>, m_value_table |-> <<>>,
     m_key_table_size |-> 0, m_value_table_size |-> 0]

\* the field loop of layer::layer from field i on: the members afterwards,
\* and whether an unknown field stopped the loop
RECURSIVE layer_fields(_, _, _)
layer_fields(d, i, l) ==
    IF i > Len(d)
    THEN [l |-> l, exc |-> "none"]
    ELSE LET f == d[i]
             tt == tag_and_type(f)
         IN CASE tt = <<"version", "varint">> ->
                     layer_fields(d, i + 1, [l EXCEPT !.m_version = f.varint])
              [] tt = <<"name", "length_delimited">> ->
                     layer_fields(d, i + 1, [l EXCEPT !.m_name = data_view(f.bytes)])
              [] tt = <<"features", "length_delimited">> ->
                     layer_fields(d, i + 1, [l EXCEPT !.m_num_features = @ + 1])
              [] tt = <<"keys", "length_delimited">> ->
                     layer_fields(d, i + 1, [l EXCEPT !.m_key_table_size = @ + 1])
              [] tt = <<"values", "length_delimited">> ->
                     layer_fields(d, i + 1, [l EXCEPT !.m_value_table_size = @ + 1])
              [] tt = <<"extent", "varint">> ->
                     layer_fields(d, i + 1, [l EXCEPT !.m_extent = f.varint])
              [] OTHER -> [l |-> l, exc |-> "format_exception"]

\* "This library can only handle version 1 and 2."
version_unsupported_above(v) == v > 2

version_unsupported(v) == v < 1 \/ v > 2

\* 4.1 "A layer MUST contain a name field."
name_missing_never(name) == FALSE

name_missing(name) == name.null

\* layer::layer(data): the members and the exception thrown ("none" if none)
layer_ctor(d) ==
    LET r == layer_fields(d, 1, NewLayer)
    IN IF r.exc # "none" THEN r
       ELSE IF version_unsupported(r.l.m_version)
       THEN [l |-> r.l, exc |-> "version_exception"]
       ELSE IF name_missing(r.l.m_name)
       THEN [l |-> r.l, exc |-> "format_exception"]
       ELSE r

\* the payloads of the fields of d with the given tag and type, in order
RECURSIVE collect(_, _, _)
collect(d, i, tt) ==
    IF i > Len(d) THEN <<>>
    ELSE IF tag_and_type(d[i]) = tt
    THEN <<d[i].bytes>> \o collect(d, i + 1, tt)
    ELSE collect(d, i + 1, tt)

\* layer::initialize_tables
initialize_tables_keeps_value_size(l, d) ==
    [l EXCEPT !.m_key_table_size = 0,
              !.m_key_table = @ \o collect(d, 1, <<"keys", "length_delimited">>),
              !.m_value_table = @ \o collect(d, 1, <<"values", "length_delimited">>)]

initialize_tables(l, d) ==
    [l EXCEPT !.m_key_table_size = 0,
              !.m_value_table_size = 0,
              !.m_key_table = @ \o collect(d, 1, <<"keys", "length_delimited">>),
              !.m_value_table = @ \o collect(d, 1, <<"values", "length_delimited">>)]

\* what a call returns: the exception thrown, the bytes of a key or value,
\* the feature (its field's place in the record, 0 for the invalid feature)
Ret(op, exc, bytes, feature) == [op |-> op, exc |-> exc, bytes |-> bytes, feature |-> feature]

NoLayer ==
    /\ m_data = <<>>
    /\ layer_state = "unconstructed"
    /\ thrown_version = 0
    /\ layer = NewLayer
    /\ table_passes = 0
    /\ layer_ret = Ret("none", "none", <<>>, 0)
    /\ layer_arg = 0
    /\ returned = <<>>

NoGeometry ==
    /\ geom_type = "POINT"
    /\ strict = TRUE
    /\ data = <<>>
    /\ complete = TRUE
    /\ decoder = NewDecoder
    /\ pc = "done"
    /\ first_point = NoPoint
    /\ start_point = NoPoint
    /\ last_point = NoPoint
    /\ sum = 0
    /\ calls = <<>>
    /\ result = "ok"

Construct ==
    /\ layer_state = "unconstructed"
    /\ LET r == layer_ctor(m_data)
       IN IF r.exc = "none"
          THEN /\ layer_state' = "valid"
               /\ layer' = r.l
               /\ UNCHANGED thrown_version
          ELSE /\ layer_state' = r.exc
               /\ thrown_version' = IF r.exc = "version_exception" THEN r.l.m_version ELSE 0
               /\ UNCHANGED layer
    /\ UNCHANGED <<geomVars, builderVars, m_data, table_passes, layer_ret, layer_arg, returned>>

\* key_table(): the layer afterwards, and whether initialize_tables ran
key_table(l, d) ==
    IF l.m_key_table_size > 0
    THEN [l |-> initialize_tables(l, d), ran |-> 1]
    ELSE [l |-> l, ran |-> 0]

\* value_table(): the layer afterwards, and whether initialize_tables ran
value_table(l, d) ==
    IF l.m_value_table_size > 0
    THEN [l |-> initialize_tables(l, d), ran |-> 1]
    ELSE [l |-> l, ran |-> 0]

KeyTable ==
    /\ layer_state = "valid"
    /\ layer' = key_table(layer, m_data).l
    /\ table_passes' = table_passes + key_table(layer, m_data).ran
    /\ layer_ret' = Ret("key_table", "none", <<>>, 0)
    /\ layer_arg' = 0
    /\ UNCHANGED <<geomVars, builderVars, m_data, layer_state, thrown_version, returned>>

ValueTable ==
    /\ layer_state = "valid"
    /\ layer' = value_table(layer, m_data).l
    /\ table_passes' = table_passes + value_table(layer, m_data).ran
    /\ layer_ret' = Ret("value_table", "none", <<>>, 0)
    /\ layer_arg' = 0
    /\ UNCHANGED <<geomVars, builderVars, m_data, layer_state, thrown_version, returned>>

\* std::vector::at
at_unchecked(table, index) ==
    IF index >= Len(table)
    THEN [exc |-> "none", bytes |-> <<>>]
    ELSE [exc |-> "none", bytes |-> table[index + 1]]

at(table, index) ==
    IF index >= Len(table)
    THEN [exc |-> "out_of_range", bytes |-> <<>>]
    ELSE [exc |-> "none", bytes |-> table[index + 1]]

Key ==
    /\ layer_state = "valid"
    /\ \E index \in 0..MaxFields :
         LET t == key_table(layer, m_data)
             r == at(t.l.m_key_table, index)
         IN /\ layer' = t.l
            /\ table_passes' = table_passes + t.ran
            /\ layer_ret' = Ret("key", r.exc, r.bytes, 0)
            /\ layer_arg' = index
    /\ UNCHANGED <<geomVars, builderVars, m_data, layer_state, thrown_version, returned>>

Value ==
    /\ layer_state = "valid"
    /\ \E index \in 0..MaxFields :
         LET t == value_table(layer, m_data)
             r == at(t.l.m_value_table, index)
         IN /\ layer' = t.l
            /\ table_passes' = table_passes + t.ran
            /\ layer_ret' = Ret("value", r.exc, r.bytes, 0)
            /\ layer_arg' = index
    /\ UNCHANGED <<geomVars, builderVars, m_data, layer_state, thrown_version, returned>>

\* protozero::pbf_reader::next(tag, type) on a reader that has consumed the
\* first pos fields of d: whether a field with that tag and type follows,
\* and its place (the fields before it are skipped)
reader_next(d, pos, tt) ==
    LET s == {i \in (pos + 1)..Len(d) : tag_and_type(d[i]) = tt}
    IN IF s = {}
       THEN [found |-> FALSE, at |-> 0]
       ELSE [found |-> TRUE, at |-> CHOOSE i \in s : \A j \in s : i <= j]

\* layer::next_feature: the layer afterwards and the feature returned
next_feature_from_start(l, d) ==
    LET r == reader_next(d, 0, <<"features", "length_delimited">>)
    IN IF r.found
       THEN [l |-> [l EXCEPT !.m_layer_reader = r.at], feature |-> r.at]
       ELSE [l |-> [l EXCEPT !.m_layer_reader = Len(d)], feature |-> 0]

next_feature(l, d) ==
    LET r == reader_next(d, l.m_layer_reader, <<"features", "length_delimited">>)
    IN IF r.found
       THEN [l |-> [l EXCEPT !.m_layer_reader = r.at], feature |-> r.at]
       ELSE [l |-> [l EXCEPT !.m_layer_reader = Len(d)], feature |-> 0]

NextFeature ==
    /\ layer_state = "valid"
    /\ Len(returned) <= MaxFields
    /\ LET r == next_feature(layer, m_data)
       IN /\ layer' = r.l
          /\ layer_ret' = Ret("next_feature", "none", <<>>, r.feature)
          /\ returned' = Append(returned, r.feature)
    /\ layer_arg' = 0
    /\ UNCHANGED <<geomVars, builderVars, m_data, layer_state, thrown_version, table_passes>>

\* layer::reset_feature
reset_feature_keeps_reader(l, d) == l

reset_feature(l, d) == [l EXCEPT !.m_layer_reader = 0]

ResetFeature ==
    /\ layer_state = "valid"
    /\ layer' = reset_feature(layer, m_data)
    /\ layer_ret' = Ret("reset_feature", "none", <<>>, 0)
    /\ returned' = <<>>
    /\ layer_arg' = Len(returned)
    /\ UNCHANGED <<geomVars, builderVars, m_data, layer_state, thrown_version, table_passes>>

\* the loop of layer::get_feature_by_id on a reader that has consumed the
\* first pos fields of d: the feature it returns
RECURSIVE feature_scan(_, _, _)
feature_scan(d, pos, id) ==
    LET r == reader_next(d, pos, <<"features", "length_delimited">>)
    IN IF ~r.found THEN 0
       ELSE LET feature_data == d[r.at].msg
                feature_reader == reader_next(feature_data, 0, <<"id", "varint">>)
            IN IF feature_reader.found /\ feature_data[feature_reader.at].varint = id
               THEN r.at
               ELSE feature_scan(d, r.at, id)

\* layer::get_feature_by_id: the layer afterwards and the feature returned
get_feature_by_id_member_reader(l, d, id) ==
    LET f == feature_scan(d, l.m_layer_reader, id)
    IN [l |-> [l EXCEPT !.m_layer_reader = IF f = 0 THEN Len(d) ELSE f], feature |-> f]

get_feature_by_id(l, d, id) == [l |-> l, feature |-> feature_scan(d, 0, id)]

GetFeatureById ==
    /\ layer_state = "valid"
    /\ \E id \in LookupIds :
         LET r == get_feature_by_id(layer, m_data, id)
         IN /\ layer' = r.l
            /\ layer_ret' = Ret("get_feature_by_id", "none", <<>>, r.feature)
            /\ layer_arg' = id
    /\ UNCHANGED <<geomVars, builderVars, m_data, layer_state, thrown_version, table_passes, returned>>

(***************************************************************************)
(* builder.hpp: the polygon feature builder and the layer builder it       *)
(* writes to.  The layer builder's buffer is the sequence of its feature   *)
(* records; the record of the feature being built is its last one.         *)
(***************************************************************************)
\* a feature record: its id (0 without), its geometry command stream, its tags
FeatureRecord(id, geometry, tags) == [id |-> id, geometry |-> geometry, tags |-> tags]

\* the points given to set_point
BuilderPoints == {point(0, 0), point(1, 1)}

\* the feature a layer builder may hold before the feature builder is created
PriorFeature == FeatureRecord(1, <<command_move_to(1), 0, 0>>, <<>>)

\* the members of a feature builder before its constructor has run
NoFeatureBuilder ==
    [alive |-> FALSE, stage |-> "none", num_points |-> 0, start_ring |-> FALSE,
     first_point |-> NoPoint, cursor |-> NoPoint, num_rings |-> 0, start |-> 0]

\* the record being built: the last one of the layer builder's buffer
current(lb) == lb.buffer[Len(lb.buffer)]

with_current(lb, f) == [lb EXCEPT !.buffer = [@ EXCEPT ![Len(lb.buffer)] = f]]

\* what a call on the builder leaves: the two objects and the exception
Outcome(fb, lb, exc) == [fb |-> fb, lb |-> lb, exc |-> exc]

\* polygon_feature_builder(layer_builder)
feature_builder_ctor(lb) ==
    Outcome([NoFeatureBuilder EXCEPT !.alive = TRUE, !.stage = "INIT",
                                     !.start = Len(lb.buffer)],
            [lb EXCEPT !.buffer = Append(@, FeatureRecord(0, <<>>, <<>>))],
            "none")

\* set_id(id): permitted in INIT only
set_id_in_any_stage(fb, lb, id) ==
    Outcome([fb EXCEPT !.stage = "HAS_ID"],
            with_current(lb, [current(lb) EXCEPT !.id = id]),
            "none")

set_id(fb, lb, id) ==
    IF fb.stage # "INIT"
    THEN Outcome(fb, lb, "assert")
    ELSE Outcome([fb EXCEPT !.stage = "HAS_ID"],
                 with_current(lb, [current(lb) EXCEPT !.id = id]),
                 "none")

\* the point count add_ring accepts
ring_count_any(count) == TRUE

ring_count_ok(count) == count > 3

\* add_ring(count): permitted before the properties, while no ring is open
add_ring(fb, lb, count) ==
    IF \/ fb.stage \notin {"INIT", "HAS_ID", "GEOMETRY"}
       \/ fb.num_points # 0
       \/ ~ring_count_ok(count)
    THEN Outcome(fb, lb, "assert")
    ELSE Outcome([fb EXCEPT !.stage = "GEOMETRY", !.num_points = count,
                            !.start_ring = TRUE, !.num_rings = @ + 1],
                 lb, "none")

\* set_point(p): the first point of a ring is written as MoveTo(1) and is
\* followed by the LineTo command of the ring, the last one has to be the
\* first one again and is written as ClosePath(1)
set_point(fb, lb, p) ==
    IF fb.stage # "GEOMETRY" \/ fb.num_points = 0
    THEN Outcome(fb, lb, "assert")
    ELSE LET f == current(lb)
             dx == encode_zigzag32(p.x - fb.cursor.x)
             dy == encode_zigzag32(p.y - fb.cursor.y)
         IN IF fb.start_ring
            THEN Outcome([fb EXCEPT !.num_points = @ - 1, !.start_ring = FALSE,
                                    !.first_point = p, !.cursor = p],
                         with_current(lb, [f EXCEPT !.geometry =
                             @ \o <<command_move_to(1), dx, dy,
                                    command_line_to(fb.num_points - 2)>>]),
                         "none")
            ELSE IF fb.num_points = 1
            THEN IF p # fb.first_point
                 THEN Outcome(fb, lb, "assert")
                 ELSE Outcome([fb EXCEPT !.num_points = 0],
                              with_current(lb, [f EXCEPT !.geometry =
                                  @ \o <<command_close_path(1)>>]),
                              "none")
            ELSE Outcome([fb EXCEPT !.num_points = @ - 1, !.cursor = p],
                         with_current(lb, [f EXCEPT !.geometry = @ \o <<dx, dy>>]),
                         "none")

\* close_ring(): stands for the last point of the open ring
close_ring_writes_nothing(fb, lb) ==
    IF fb.stage # "GEOMETRY" \/ fb.num_points # 1 \/ fb.start_ring
    THEN Outcome(fb, lb, "assert")
    ELSE Outcome([fb EXCEPT !.num_points = 0], lb, "none")

close_ring(fb, lb) ==
    IF fb.stage # "GEOMETRY" \/ fb.num_points # 1 \/ fb.start_ring
    THEN Outcome(fb, lb, "assert")
    ELSE Outcome([fb EXCEPT !.num_points = 0],
                 with_current(lb, [current(lb) EXCEPT !.geometry =
                     @ \o <<command_close_path(1)>>]),
                 "none")

\* the set_point calls of add_ring(begin, end, count), from the i-th point on
RECURSIVE set_points(_, _, _, _)
set_points(fb, lb, points, i) ==
    IF i > Len(points) THEN Outcome(fb, lb, "none")
    ELSE LET r == set_point(fb, lb, points[i])
         IN IF r.exc # "none" THEN r ELSE set_points(r.fb, r.lb, points, i + 1)

\* add_ring(begin, end, count): a ring from a range of points
add_ring_range(fb, lb, points, count) ==
    LET a == add_ring(fb, lb, count)
    IN IF a.exc # "none" \/ Len(points) # count
       THEN Outcome(fb, lb, "assert")
       ELSE LET r == set_points(a.fb, a.lb, points, 1)
            IN IF r.exc # "none" THEN Outcome(fb, lb, "assert") ELSE r

\* add_property(key, value): permitted once the geometry is complete
add_property(fb, lb, key, value) ==
    IF fb.stage \notin {"GEOMETRY", "PROPERTIES"} \/ fb.num_points # 0
    THEN Outcome(fb, lb, "assert")
    ELSE Outcome([fb EXCEPT !.stage = "PROPERTIES"],
                 with_current(lb, [current(lb) EXCEPT !.tags = @ \o <<key, value>>]),
                 "none")

\* commit(): permitted once the geometry is complete; the record stays in
\* the buffer and is counted
commit(fb, lb) ==
    IF fb.stage \notin {"GEOMETRY", "PROPERTIES"} \/ fb.num_points # 0
    THEN Outcome(fb, lb, "assert")
    ELSE Outcome([fb EXCEPT !.stage = "COMMITTED"],
                 [lb EXCEPT !.num_features = @ + 1],
                 "none")

\* rollback: the buffer is cut back to its length at the feature's start
rollback(fb, lb) ==
    Outcome([fb EXCEPT !.alive = FALSE],
            [lb EXCEPT !.buffer = SubSeq(@, 1, fb.start)],
            "none")

\* whether the destructor of a builder that was not committed commits:
\* test_polygon_builder(false, ...) and "Add polygon from container" leave
\* the scope of a builder with a complete ring without calling commit() and
\* require the layer to have one feature
destructor_commits_never(fb) == FALSE

destructor_commits(fb) == fb.stage \in {"GEOMETRY", "PROPERTIES"} /\ fb.num_points = 0

\* ~polygon_feature_builder()
feature_builder_dtor(fb, lb) ==
    IF fb.stage = "COMMITTED"
    THEN Outcome([fb EXCEPT !.alive = FALSE], lb, "none")
    ELSE IF destructor_commits(fb)
    THEN Outcome([fb EXCEPT !.alive = FALSE], commit(fb, lb).lb, "none")
    ELSE rollback(fb, lb)

\* a ring as test_multipolygon_builder gives it: add_ring(n), a set_point
\* for each of the n - 1 points, and close_ring() or a set_point with the
\* first point again
build_ring(fb, lb, ring) ==
    LET a == add_ring(fb, lb, Len(ring.points) + 1)
        s == set_points(a.fb, a.lb, ring.points, 1)
    IN IF a.exc # "none" THEN a
       ELSE IF s.exc # "none" THEN s
       ELSE IF ring.close_ring THEN close_ring(s.fb, s.lb)
       ELSE set_point(s.fb, s.lb, ring.points[1])

RECURSIVE build_rings(_, _, _, _)
build_rings(fb, lb, rings, i) ==
    IF i > Len(rings) THEN Outcome(fb, lb, "none")
    ELSE LET r == build_ring(fb, lb, rings[i])
         IN IF r.exc # "none" THEN r ELSE build_rings(r.fb, r.lb, rings, i + 1)

\* the calls of test_multipolygon_builder: the builder, its rings, commit()
build_polygon(lb, rings) ==
    LET c == feature_builder_ctor(lb)
        r == build_rings(c.fb, c.lb, rings, 1)
    IN IF r.exc # "none" THEN r ELSE commit(r.fb, r.lb)

NoBuilder ==
    /\ lbuilder = [buffer |-> <<>>, num_features |-> 0]
    /\ fbuilder = NoFeatureBuilder
    /\ buffer_before = <<>>
    /\ builder_ret = [op |-> "none", arg |-> 0, exc |-> "none"]
    /\ rings_given = <<>>

\* the builder is alive: constructed and not destroyed
Alive == fbuilder.alive

\* a call leaves its outcome in the two objects
Leaves(op, arg, r) ==
    /\ fbuilder' = r.fb
    /\ lbuilder' = r.lb
    /\ builder_ret' = [op |-> op, arg |-> arg, exc |-> r.exc]
    /\ UNCHANGED <<geomVars, layerVars, rings_given>>

FeatureBuilder ==
    /\ fbuilder.stage = "none"
    /\ buffer_before' = lbuilder.buffer
    /\ Leaves("polygon_feature_builder", 0, feature_builder_ctor(lbuilder))

SetId ==
    /\ Alive
    /\ UNCHANGED buffer_before
    /\ Leaves("set_id", 17, set_id(fbuilder, lbuilder, 17))

AddRing ==
    /\ Alive
    /\ UNCHANGED buffer_before
    /\ \E count \in 3..MaxRingPoints :
         LET r == add_ring(fbuilder, lbuilder, count)
         IN r.fb.num_rings <= MaxRings /\ Leaves("add_ring", count, r)

SetPoint ==
    /\ Alive
    /\ UNCHANGED buffer_before
    /\ \E p \in BuilderPoints :
         Leaves("set_point", 0, set_point(fbuilder, lbuilder, p))

CloseRing ==
    /\ Alive
    /\ UNCHANGED buffer_before
    /\ Leaves("close_ring", 0, close_ring(fbuilder, lbuilder))

\* the ranges given to add_ring(begin, end, count)
RingRanges ==
    {<<point(0, 0), point(1, 0), point(1, 1), point(0, 0)>>}

AddRingRange ==
    /\ Alive
    /\ UNCHANGED buffer_before
    /\ \E points \in RingRanges, count \in 3..(MaxRingPoints + 1) :
         LET r == add_ring_range(fbuilder, lbuilder, points, count)
         IN r.fb.num_rings <= MaxRings /\ Leaves("add_ring_range", count, r)

AddProperty ==
    /\ Alive
    /\ Len(current(lbuilder).tags) < 2 * MaxProps
    /\ UNCHANGED buffer_before
    /\ Leaves("add_property", 0, add_property(fbuilder, lbuilder, 0, 0))

Commit ==
    /\ Alive
    /\ UNCHANGED buffer_before
    /\ Leaves("commit", 0, commit(fbuilder, lbuilder))

Drop ==
    /\ Alive
    /\ UNCHANGED buffer_before
    /\ Leaves("drop", 0, feature_builder_dtor(fbuilder, lbuilder))

(***************************************************************************)
(* The geometry decoder's specification                                    *)
(***************************************************************************)
GeomTypes == {"POINT", "LINESTRING", "POLYGON"}

EntryPc(t) == CASE t = "POINT" -> "point_move_to"
                [] t = "LINESTRING" -> "linestring_move_to"
                [] t = "POLYGON" -> "polygon_move_to"

InitGeom ==
    /\ geom_type \in GeomTypes
    /\ strict \in BOOLEAN
    /\ data = <<>>
    /\ complete = FALSE
    /\ decoder = NewDecoder
    /\ pc = EntryPc(geom_type)
    /\ first_point = NoPoint
    /\ start_point = NoPoint
    /\ last_point = NoPoint
    /\ sum = 0
    /\ calls = <<>>
    /\ result = "running"
    /\ NoLayer
    /\ NoBuilder

NextGeom ==
    \/ PointMoveTo
    \/ PointPoint
    \/ PointEnd
    \/ LinestringMoveTo
    \/ LinestringFirst
    \/ LinestringLineTo
    \/ LinestringPoint
    \/ LinestringEnd
    \/ PolygonMoveTo
    \/ PolygonFirst
    \/ PolygonLineTo
    \/ PolygonPoint
    \/ PolygonClose

SpecGeom == InitGeom /\ [][NextGeom]_vars

(***************************************************************************)
(* Properties of the geometry decoder                                      *)
(***************************************************************************)
CallsOf(op) == {j \in 1..Len(calls) : calls[j].op = op}

\* the ring_begin callback before callback j
RingBegin(j) == CHOOSE b \in CallsOf("ring_begin") :
                    b < j /\ \A c \in CallsOf("ring_begin") : c < j => c <= b

\* the points of the ring that ends at callback j as the stream gives them:
\* the MoveTo point and the LineTo points, without the start point that is
\* delivered once more to close the ring
RingStreamPoints(j) == [i \in 1..(j - RingBegin(j) - 2) |-> calls[RingBegin(j) + i].p]

RECURSIVE SumDet(_, _)
SumDet(pts, i) ==
    IF i >= Len(pts) THEN 0 ELSE det(pts[i], pts[i + 1]) + SumDet(pts, i + 1)

\* the shoelace sum of a ring, the closing segment included
Shoelace(pts) ==
    IF Len(pts) = 0 THEN 0 ELSE SumDet(pts, 1) + det(pts[Len(pts)], pts[1])

\* C1: every ring_end receives true exactly when the shoelace sum over the
\* ring's points, closing segment included, is strictly positive; ring_end is
\* delivered whatever the sum is (a sum of 0 is reported as false, not as an
\* error).
C1_RingOrientation ==
    /\ \A j \in CallsOf("ring_end") :
          calls[j].outer = (Shoelace(RingStreamPoints(j)) > 0)
    /\ (pc = "polygon_move_to" /\ calls # <<>>) =>
          /\ calls[Len(calls)].op = "ring_end"
          /\ result = "running"

C1_Witness ==
    /\ strict
    /\ result = "ok"
    /\ \E j \in CallsOf("ring_end") :
          /\ calls[j].outer
          /\ Shoelace(RingStreamPoints(j)) > 0

\* this step's next_point reads the parameter pair (0,0)
ReadsZeroPair ==
    /\ decoder.m_count > 0
    /\ Len(data') >= decoder.m_it + 2
    /\ data'[decoder.m_it + 1] = 0
    /\ data'[decoder.m_it + 2] = 0

LineToZeroPair ==
    /\ pc \in {"linestring_points", "polygon_points"}
    /\ decoder.m_command_id = command_line_to(0)
    /\ ReadsZeroPair

MoveToZeroPair ==
    /\ pc \in {"point_points", "linestring_first", "polygon_first"}
    /\ decoder.m_command_id = command_move_to(0)
    /\ ReadsZeroPair

\* C2: a LineTo parameter pair (0,0) makes a strict decode fail with a
\* geometry_exception, a non-strict decode goes on and delivers the point of
\* before once more; a MoveTo parameter pair (0,0) is not refused in either
\* mode.
C2_ConsecutiveEqualPoints ==
    [][/\ LineToZeroPair =>
            IF strict
            THEN result' = "geometry_exception" /\ calls' = calls
            ELSE /\ result' = "running"
                 /\ Len(calls') = Len(calls) + 1
                 /\ calls'[Len(calls')].p = calls[Len(calls)].p
                 /\ calls'[Len(calls')].op = calls[Len(calls)].op
       /\ MoveToZeroPair => result' = "running"]_vars

C2_Witness ==
    /\ strict
    /\ geom_type = "LINESTRING"
    /\ result = "geometry_exception"
    /\ decoder.m_command_id = command_line_to(0)
    /\ decoder.m_count > 0
    /\ decoder.m_it = Len(data)
    /\ Len(data) >= 2
    /\ data[Len(data)] = 0
    /\ data[Len(data) - 1] = 0

\* a point stream: one MoveTo with count n >= 1 and exactly 2n parameters
PointWellFormed(d) ==
    /\ Len(d) >= 1
    /\ get_command_id(d[1]) = 1
    /\ get_command_count(d[1]) >= 1
    /\ Len(d) = 1 + 2 * get_command_count(d[1])

\* d can still be continued to a point stream
PointPrefix(d) ==
    \/ Len(d) = 0
    \/ /\ get_command_id(d[1]) = 1
       /\ get_command_count(d[1]) >= 1
       /\ Len(d) <= 1 + 2 * get_command_count(d[1])

\* C3: decode_point_geometry succeeds exactly on the streams that are one
\* MoveTo with count n >= 1 followed by exactly 2n parameters, then it has
\* delivered n points; on every other stream it throws geometry_exception.
C3_PointStream ==
    (geom_type = "POINT" /\ pc = "done") =>
        /\ result \in {"ok", "geometry_exception"}
        /\ result = "ok" =>
              /\ complete
              /\ PointWellFormed(data)
              /\ Cardinality(CallsOf("points_point")) = get_command_count(data[1])
              /\ Len(calls) = get_command_count(data[1]) + 2
        /\ result = "geometry_exception" =>
              IF complete THEN ~PointWellFormed(data) ELSE ~PointPrefix(data)

C3_Witness ==
    /\ geom_type = "POINT"
    /\ result = "ok"
    /\ Len(data) = 5
    /\ Cardinality(CallsOf("points_point")) = 2

\* how far d, from index i on, is made of (MoveTo count 1, LineTo count
\* n >= 1) groups: "whole" groups only, a last group that is still "partial",
\* or "bad"
RECURSIVE LinestringShape(_, _)
LinestringShape(d, i) ==
    IF i > Len(d) THEN "whole"
    ELSE IF d[i] # command_move_to(1) THEN "bad"
    ELSE IF Len(d) < i + 3 THEN "partial"
    ELSE IF get_command_id(d[i + 3]) # 2 \/ get_command_count(d[i + 3]) = 0 THEN "bad"
    ELSE IF Len(d) < i + 3 + 2 * get_command_count(d[i + 3]) THEN "partial"
    ELSE LinestringShape(d, i + 4 + 2 * get_command_count(d[i + 3]))

\* the stream is made of k >= 1 such groups, as far as it is known
LinestringStream ==
    IF complete
    THEN Len(data) > 0 /\ LinestringShape(data, 1) = "whole"
    ELSE LinestringShape(data, 1) # "bad"

\* where the LineTo parameter pairs of such a stream start
RECURSIVE LineToPairs(_, _)
LineToPairs(d, i) ==
    IF i + 3 > Len(d) THEN {}
    ELSE LET n == get_command_count(d[i + 3])
         IN {q \in {i + 4 + 2 * k : k \in 0..(n - 1)} : q + 1 <= Len(d)}
            \cup LineToPairs(d, i + 4 + 2 * n)

HasZeroLineToPair(d) == \E q \in LineToPairs(d, 1) : d[q] = 0 /\ d[q + 1] = 0

\* the n points the parameter pairs from index i on lead to from cur
RECURSIVE PathPoints(_, _, _, _)
PathPoints(d, i, n, cur) ==
    IF n = 0 THEN <<>>
    ELSE LET p == point(cur.x + decode_zigzag32(d[i]), cur.y + decode_zigzag32(d[i + 1]))
         IN <<p>> \o PathPoints(d, i + 2, n - 1, p)

\* the callbacks that deliver the linestrings of a stream of whole groups
RECURSIVE LinestringCalls(_, _, _)
LinestringCalls(d, i, cur) ==
    IF i > Len(d) THEN <<>>
    ELSE LET n == get_command_count(d[i + 3])
             first == PathPoints(d, i + 1, 1, cur)
             pts == first \o PathPoints(d, i + 4, n, first[1])
         IN <<Call("linestring_begin", n + 1, NoPoint, FALSE)>>
            \o [k \in 1..(n + 1) |-> Call("linestring_point", 0, pts[k], FALSE)]
            \o <<Call("linestring_end", 0, NoPoint, FALSE)>>
            \o LinestringCalls(d, i + 4 + 2 * n, pts[n + 1])

\* C4 as stated: on a stream made of k >= 1 (MoveTo 1, LineTo n_i >= 1)
\* groups decode_linestring_geometry delivers the k linestrings, each with
\* its MoveTo point and its n_i LineTo points.
C4_AsStated ==
    (geom_type = "LINESTRING" /\ pc = "done" /\ LinestringStream) =>
        /\ result = "ok"
        /\ calls = LinestringCalls(data, 1, point(0, 0))

\* C4, amended: on a stream made of k >= 1 (MoveTo 1, LineTo n_i >= 1) groups
\* which, when strict is set, holds no LineTo parameter pair (0,0),
\* decode_linestring_geometry delivers the k linestrings in stream order,
\* the i-th with n_i + 1 points, the MoveTo point first and no closing point;
\* a stream on which it succeeds is made of such groups only, every other
\* stream (MoveTo count not 1, no LineTo after a MoveTo, LineTo count 0)
\* ends in geometry_exception.
C4_Linestrings ==
    (geom_type = "LINESTRING" /\ pc = "done") =>
        /\ result \in {"ok", "geometry_exception"}
        /\ (LinestringStream /\ (strict => ~HasZeroLineToPair(data))) =>
              /\ result = "ok"
              /\ complete
              /\ calls = LinestringCalls(data, 1, point(0, 0))
        /\ result = "ok" =>
              /\ complete
              /\ LinestringShape(data, 1) = "whole"

C4_Witness ==
    /\ geom_type = "LINESTRING"
    /\ strict
    /\ result = "ok"
    /\ Cardinality(CallsOf("linestring_end")) = 2
    /\ calls = LinestringCalls(data, 1, point(0, 0))

\* this step's next_command reads the command integer ci
CommandRead ==
    /\ \/ pc \in {"point_move_to", "linestring_move_to", "linestring_line_to",
                  "polygon_move_to", "polygon_line_to"}
       \/ pc = "polygon_points" /\ decoder.m_count = 0
    /\ Len(data') > decoder.m_it

ReadCommandInt == data'[decoder.m_it + 1]

\* C5 as stated: the LineTo count of a ring below 2 in strict mode, below 1
\* in non-strict mode, ends in geometry_exception; count 1 is accepted in
\* non-strict mode.
C5_AsStated ==
    [][(/\ pc = "polygon_line_to"
        /\ CommandRead
        /\ get_command_id(ReadCommandInt) = 2) =>
            LET count == get_command_count(ReadCommandInt)
            IN /\ (strict /\ count <= 1) => result' = "geometry_exception"
               /\ (~strict /\ count = 0) => result' = "geometry_exception"
               /\ (~strict /\ count = 1) => result' = "running"]_vars

\* C6 as stated: a linestring or polygon decode that succeeds has delivered
\* at least one linestring, respectively one ring.
C6_AsStated ==
    (geom_type \in {"LINESTRING", "POLYGON"} /\ pc = "done" /\ result = "ok") =>
        CallsOf("linestring_end") \cup CallsOf("ring_end") # {}

\* C7: a ClosePath command integer whose count is not 1 ends the decode in
\* geometry_exception wherever next_command reads it, strict or not; the
\* only ClosePath that is accepted is the one with count 1 that closes a
\* ring, and it moves the iterator by one integer only: the cursor stays, no
\* parameters are pending, the next integer is read as a command.
C7_ClosePath ==
    [][(CommandRead /\ get_command_id(ReadCommandInt) = 7) =>
            /\ result' \in {"running", "geometry_exception"}
            /\ get_command_count(ReadCommandInt) # 1 => result' = "geometry_exception"
            /\ (pc = "polygon_points" /\ get_command_count(ReadCommandInt) = 1) =>
                  result' = "running"
            /\ result' = "running" =>
                  /\ pc = "polygon_points"
                  /\ get_command_count(ReadCommandInt) = 1
                  /\ decoder'.m_it = decoder.m_it + 1
                  /\ decoder'.m_cursor = decoder.m_cursor
                  /\ decoder'.m_count = 0
                  /\ pc' = "polygon_move_to"]_vars

C7_Witness ==
    /\ ~strict
    /\ geom_type = "POLYGON"
    /\ result = "geometry_exception"
    /\ calls # <<>>
    /\ decoder.m_command_id = 7
    /\ decoder.m_it = Len(data) - 1
    /\ get_command_id(data[Len(data)]) = 7
    /\ get_command_count(data[Len(data)]) # 1

\* C18 as stated: a decode call that ends with a geometry_exception has
\* made no callback.
C18_AsStated ==
    result = "geometry_exception" => calls = <<>>

\* the sums of the deltas of the first n integers of stream d, one after
\* each parameter pair: from integer i on, with cnt pairs of the current
\* command outstanding and the sum cur so far
RECURSIVE DeltaSums(_, _, _, _, _)
DeltaSums(d, n, i, cnt, cur) ==
    IF i > n THEN <<>>
    ELSE IF cnt > 0
    THEN LET c2 == point(cur.x + decode_zigzag32(d[i]), cur.y + decode_zigzag32(d[i + 1]))
         IN <<c2>> \o DeltaSums(d, n, i + 2, cnt - 1, c2)
    ELSE DeltaSums(d, n, i + 1,
                   IF get_command_id(d[i]) = command_close_path(0)
                   THEN 0 ELSE get_command_count(d[i]),
                   cur)

PointOps == {"points_point", "linestring_point", "ring_point"}

\* callback j is the start point of a ring delivered again to close it
ClosesRing(j) ==
    /\ calls[j].op = "ring_point"
    /\ j < Len(calls)
    /\ calls[j + 1].op = "ring_end"

\* the points delivered that were decoded from parameters, from callback j on
RECURSIVE DecodedPoints(_)
DecodedPoints(j) ==
    IF j > Len(calls) THEN <<>>
    ELSE IF calls[j].op \in PointOps /\ ~ClosesRing(j)
    THEN <<calls[j].p>> \o DecodedPoints(j + 1)
    ELSE DecodedPoints(j + 1)

\* C24: the cursor is (0,0) plus the sum of all deltas consumed so far, of
\* whatever command, linestring or ring they are, and the k-th point
\* delivered from parameters is that sum after the k-th parameter pair; a
\* command integer, a ClosePath and the start point delivered again to
\* close a ring leave the cursor as it is.
C24_Cursor ==
    LET sums == DeltaSums(data, decoder.m_it, 1, 0, point(0, 0))
        pts == DecodedPoints(1)
    IN /\ decoder.m_cursor = IF sums = <<>> THEN point(0, 0) ELSE sums[Len(sums)]
       /\ Len(pts) <= Len(sums)
       /\ \A k \in 1..Len(pts) : pts[k] = sums[k]
       /\ result = "ok" => Len(pts) = Len(sums)

C24_Witness ==
    /\ geom_type = "LINESTRING"
    /\ result = "ok"
    /\ strict
    /\ Cardinality(CallsOf("linestring_end")) = 2
    /\ Len(DecodedPoints(1)) = 4
    /\ decoder.m_cursor = point(2, -2)
    /\ decoder.m_it = 12

\* the callbacks of the handler a decode function of a geometry type calls
CallbackGroup(t) ==
    CASE t = "POINT" ->
           [begin |-> "points_begin", point |-> "points_point", end |-> "points_end"]
      [] t = "LINESTRING" ->
           [begin |-> "linestring_begin", point |-> "linestring_point",
            end |-> "linestring_end"]
      [] t = "POLYGON" ->
           [begin |-> "ring_begin", point |-> "ring_point", end |-> "ring_end"]

\* the callbacks from the j-th on continue a trace of (begin point+ end)*
\* of the group g: `inside` a bracket whose begin was given count n and
\* that has delivered `seen` points so far
RECURSIVE Bracketed(_, _, _, _, _)
Bracketed(g, j, inside, n, seen) ==
    IF j > Len(calls) THEN result = "ok" => ~inside
    ELSE LET op == calls[j].op
         IN IF op = g.begin
            THEN ~inside /\ Bracketed(g, j + 1, TRUE, calls[j].n, 0)
            ELSE IF op = g.point
            THEN inside /\ seen < n /\ Bracketed(g, j + 1, TRUE, n, seen + 1)
            ELSE IF op = g.end
            THEN inside /\ seen >= 1 /\ seen = n /\ Bracketed(g, j + 1, FALSE, 0, 0)
            ELSE FALSE

\* C25: the callbacks made so far are all of the group of the geometry
\* type decoded and form a prefix of (begin point+ end)*: a point only
\* between a begin and its end, no begin inside a bracket, at least one
\* point in each bracket, as many points before an end as its begin was
\* told, and no bracket left open when the decode function returns.
C25_CallbackTrace ==
    Bracketed(CallbackGroup(geom_type), 1, FALSE, 0, 0)

C25_Witness ==
    /\ geom_type = "POLYGON"
    /\ result = "ok"
    /\ ~strict
    /\ Len(calls) = 5
    /\ calls[1].op = "ring_begin"
    /\ calls[1].n = 3
    /\ calls[5].op = "ring_end"

\* C29: no decode call ends in a failed assertion: next_command is entered
\* with no point of the last command outstanding and next_point with at
\* least one, so a malformed stream ends in a geometry_exception.
C29_NoAssert ==
    /\ result \in {"running", "ok", "geometry_exception"}
    /\ pc \in {"point_move_to", "linestring_move_to", "linestring_line_to",
                "polygon_move_to", "polygon_line_to"} => decoder.m_count = 0
    /\ pc \in {"linestring_first", "polygon_first"} => decoder.m_count = 1

C29_Witness ==
    /\ result = "geometry_exception"
    /\ geom_type = "LINESTRING"
    /\ decoder.m_count = 2
    /\ decoder.m_it = 0

(***************************************************************************)
(* The specification of decoding a polygon with a hole: a square ring      *)
(* from (0,0) to (10,10) followed by a square ring from (2,2) to (8,8),    *)
(* each in one of its two directions.                                      *)
(***************************************************************************)
\* the corners of a square from its corner (lo,lo): through (lo,hi) first,
\* or in the other direction, through (hi,lo) first
Square(lo, hi, other) ==
    IF other
    THEN <<point(lo, lo), point(hi, lo), point(hi, hi), point(lo, hi)>>
    ELSE <<point(lo, lo), point(lo, hi), point(hi, hi), point(hi, lo)>>

\* the parameter pairs that move the cursor from `from` along pts
RECURSIVE DeltaPairs(_, _, _)
DeltaPairs(from, pts, i) ==
    IF i > Len(pts) THEN <<>>
    ELSE <<encode_zigzag32(pts[i].x - from.x), encode_zigzag32(pts[i].y - from.y)>>
         \o DeltaPairs(pts[i], pts, i + 1)

\* the commands of a ring with corners pts when the cursor stands at `from`
RingCommands(from, pts) ==
    <<command_move_to(1)>> \o DeltaPairs(from, <<pts[1]>>, 1)
    \o <<command_line_to(Len(pts) - 1)>> \o DeltaPairs(pts[1], Tail(pts), 1)
    \o <<command_close_path(1)>>

\* the command stream of a polygon with the two rings
HoleStream(outer_ring, inner_ring) ==
    RingCommands(point(0, 0), outer_ring)
    \o RingCommands(outer_ring[Len(outer_ring)], inner_ring)

InitHole ==
    /\ geom_type = "POLYGON"
    /\ strict \in BOOLEAN
    /\ data \in {HoleStream(Square(0, 10, a), Square(2, 8, b)) : a, b \in BOOLEAN}
    /\ complete = TRUE
    /\ decoder = NewDecoder
    /\ pc = EntryPc(geom_type)
    /\ first_point = NoPoint
    /\ start_point = NoPoint
    /\ last_point = NoPoint
    /\ sum = 0
    /\ calls = <<>>
    /\ result = "running"
    /\ NoLayer
    /\ NoBuilder

NextHole ==
    \/ PolygonMoveTo
    \/ PolygonFirst
    \/ PolygonLineTo
    \/ PolygonPoint
    \/ PolygonClose

SpecHole == InitHole /\ [][NextHole]_vars

\* the orientation values the ring_end callbacks received, in order
RingEnds == [k \in 1..Cardinality(CallsOf("ring_end")) |->
                calls[CHOOSE j \in CallsOf("ring_end") :
                         Cardinality({i \in CallsOf("ring_end") : i <= j}) = k].outer]

\* the points the ring_point callbacks received, in order
RingPoints == [k \in 1..Cardinality(CallsOf("ring_point")) |->
                  calls[CHOOSE j \in CallsOf("ring_point") :
                           Cardinality({i \in CallsOf("ring_point") : i <= j}) = k].p]

\* the rings of the scenario as it is written
RingsAsWritten == data = HoleStream(Square(0, 10, FALSE), Square(2, 8, FALSE))

\* C19 as stated: for the first ring (0,0),(0,10),(10,10),(10,0),(0,0) and
\* the second ring (2,2),(2,8),(8,8),(8,2),(2,2) the first ring_end receives
\* outer and the second receives the opposite.
C19_AsStated ==
    (RingsAsWritten /\ result = "ok") => RingEnds = <<TRUE, FALSE>>

\* C19, amended: both rings are delivered with their five points, and both
\* ring_end calls receive the same value, not outer: the two rings run in
\* the same direction.  A ring_end receives outer exactly for a ring that
\* runs in the other direction, so the two values are opposite exactly when
\* one of the rings is reversed.
C19_HoleOrientation ==
    result = "ok" =>
        /\ RingsAsWritten =>
              /\ RingEnds = <<FALSE, FALSE>>
              /\ RingPoints = Square(0, 10, FALSE) \o <<point(0, 0)>>
                              \o Square(2, 8, FALSE) \o <<point(2, 2)>>
        /\ \A a, b \in BOOLEAN :
              data = HoleStream(Square(0, 10, a), Square(2, 8, b)) =>
                  RingEnds = <<a, b>>

C19_Witness ==
    /\ RingsAsWritten
    /\ result = "ok"
    /\ strict
    /\ Len(RingEnds) = 2
    /\ Len(RingPoints) = 10

(***************************************************************************)
(* The specification of building a polygon and decoding it again: the      *)
(* geometry of the committed feature is the stream the decoder reads.      *)
(***************************************************************************)
\* the points given to set_point
RoundTripPoints == {point(10, 20), point(1, 1)}

\* the point counts given to add_ring
RoundTripCounts == {4, 5}

\* the number of rings of a polygon, at most
RoundTripRings == 2

RingsGiven ==
    {[points |-> pts, close_ring |-> c] :
        pts \in UNION {[1..(n - 1) -> RoundTripPoints] : n \in RoundTripCounts},
        c \in BOOLEAN}

PolygonsGiven == UNION {[1..k -> RingsGiven] : k \in 1..RoundTripRings}

InitRoundTrip ==
    /\ geom_type = "POLYGON"
    /\ strict \in BOOLEAN
    /\ rings_given \in PolygonsGiven
    /\ buffer_before = <<>>
    /\ LET b == build_polygon([buffer |-> <<>>, num_features |-> 0], rings_given)
       IN /\ fbuilder = b.fb
          /\ lbuilder = b.lb
          /\ builder_ret = [op |-> "commit", arg |-> 0, exc |-> b.exc]
          /\ data = current(b.lb).geometry
    /\ complete = TRUE
    /\ decoder = NewDecoder
    /\ pc = EntryPc(geom_type)
    /\ first_point = NoPoint
    /\ start_point = NoPoint
    /\ last_point = NoPoint
    /\ sum = 0
    /\ calls = <<>>
    /\ result = "running"
    /\ NoLayer

NextRoundTrip ==
    \/ PolygonMoveTo
    \/ PolygonFirst
    \/ PolygonLineTo
    \/ PolygonPoint
    \/ PolygonClose

SpecRoundTrip == InitRoundTrip /\ [][NextRoundTrip]_vars

\* the k-th callback of a kind
NthCall(op, k) == CHOOSE j \in CallsOf(op) :
                      Cardinality({i \in CallsOf(op) : i <= j}) = k

\* the rings delivered so far: the points between each ring_begin and its
\* ring_end
DecodedRings ==
    [k \in 1..Cardinality(CallsOf("ring_end")) |->
        LET b == NthCall("ring_begin", k)
            e == NthCall("ring_end", k)
        IN [i \in 1..(e - b - 1) |-> calls[b + i].p]]

\* the rings a polygon is expected to decode to: each with its start point
\* at its end
ClosedRings(rings) ==
    [k \in 1..Len(rings) |-> rings[k].points \o <<rings[k].points[1]>>]

\* the same rings, each closed in the other way
OtherClosing(rings) ==
    [k \in 1..Len(rings) |-> [rings[k] EXCEPT !.close_ring = ~@]]

\* C23 as stated: every call that builds a polygon of one or more rings
\* is accepted, a second add_ring after a complete ring included; decoding
\* the geometry of the committed feature raises nothing and delivers
\* exactly the rings given, in order, each with its points in order and
\* its start point at the end; closing a ring by close_ring() or by a last
\* set_point equal to the first gives the same geometry.
C23_AsStated ==
    /\ builder_ret.exc = "none"
    /\ fbuilder.stage = "COMMITTED"
    /\ fbuilder.num_rings = Len(rings_given)
    /\ result \in {"running", "ok"}
    /\ \A k \in 1..Len(DecodedRings) : DecodedRings[k] = ClosedRings(rings_given)[k]
    /\ result = "ok" => DecodedRings = ClosedRings(rings_given)
    /\ current(build_polygon([buffer |-> <<>>, num_features |-> 0],
                             OtherClosing(rings_given)).lb).geometry = data

\* a ring is given two equal points one after the other
RepeatsPoint(rings) ==
    \E k \in 1..Len(rings) : \E i \in 1..(Len(rings[k].points) - 1) :
        rings[k].points[i] = rings[k].points[i + 1]

\* C23, amended: every call that builds the polygon is accepted and both
\* ways of closing a ring write the same geometry.  Decoding it non-strict,
\* or strict when no ring was given two equal points in a row, raises
\* nothing and delivers exactly the rings given, in order, each with its
\* points in order and its start point at the end; strict decoding of a
\* polygon with two equal points in a row ends in a geometry_exception.
C23_RoundTrip ==
    /\ builder_ret.exc = "none"
    /\ fbuilder.stage = "COMMITTED"
    /\ fbuilder.num_rings = Len(rings_given)
    /\ current(build_polygon([buffer |-> <<>>, num_features |-> 0],
                             OtherClosing(rings_given)).lb).geometry = data
    /\ \A k \in 1..Len(DecodedRings) : DecodedRings[k] = ClosedRings(rings_given)[k]
    /\ (strict /\ RepeatsPoint(rings_given) /\ pc = "done") =>
           result = "geometry_exception"
    /\ ~(strict /\ RepeatsPoint(rings_given)) =>
           /\ result \in {"running", "ok"}
           /\ result = "ok" => DecodedRings = ClosedRings(rings_given)

C23_Witness ==
    /\ result = "ok"
    /\ strict
    /\ Len(rings_given) = 2
    /\ Len(rings_given[1].points) = 3
    /\ Len(rings_given[2].points) = 4
    /\ rings_given[1].close_ring # rings_given[2].close_ring
    /\ Len(DecodedRings) = 2
    /\ Len(DecodedRings[2]) = 5

\* the rings of the first n integers of stream d, from integer i on with
\* the cursor at cur: for each complete MoveTo, LineTo, ClosePath triple
\* the MoveTo point, the LineTo points and the MoveTo point again
RECURSIVE StreamRings(_, _, _, _)
StreamRings(d, n, i, cur) ==
    IF i + 4 > n THEN <<>>
    ELSE LET c == get_command_count(d[i + 3])
             close == i + 4 + 2 * c
         IN IF \/ get_command_id(d[i]) # command_move_to(0)
               \/ get_command_id(d[i + 3]) # command_line_to(0)
               \/ close > n
               \/ get_command_id(d[close]) # command_close_path(0)
            THEN <<>>
            ELSE LET start == point(cur.x + decode_zigzag32(d[i + 1]),
                                    cur.y + decode_zigzag32(d[i + 2]))
                     line == DeltaSums(d, close - 1, i + 4, c, start)
                 IN <<(<<start>> \o line \o <<start>>)>>
                    \o StreamRings(d, n, close + 1,
                                   IF c = 0 THEN start ELSE line[c])

\* C26: every ring decode_polygon_geometry has decoded is delivered
\* closed: for a ring with LineTo count c the ring_point calls between its
\* ring_begin and its ring_end are c + 2, the MoveTo point, the c LineTo
\* points in stream order and the MoveTo point again.
C26_ClosedRings ==
    geom_type = "POLYGON" =>
        /\ DecodedRings = StreamRings(data, decoder.m_it, 1, point(0, 0))
        /\ \A k \in 1..Len(DecodedRings) :
              LET ring == DecodedRings[k]
                  b == NthCall("ring_begin", k)
              IN /\ Len(ring) = calls[b].n
                 /\ ring[1] = ring[Len(ring)]
                 /\ \A i \in 1..Len(ring) : calls[b + i].op = "ring_point"

C26_Witness ==
    /\ geom_type = "POLYGON"
    /\ result = "ok"
    /\ strict
    /\ Len(DecodedRings) = 1
    /\ Len(DecodedRings[1]) = 4
    /\ DecodedRings[1][2] # DecodedRings[1][1]
    /\ DecodedRings[1][3] # DecodedRings[1][1]
    /\ DecodedRings[1][4] = DecodedRings[1][1]

(***************************************************************************)
(* The layer reader's specification                                        *)
(***************************************************************************)
InitLayer ==
    /\ NoGeometry
    /\ NoBuilder
    /\ m_data \in LayerRecords
    /\ layer_state = "unconstructed"
    /\ thrown_version = 0
    /\ layer = NewLayer
    /\ table_passes = 0
    /\ layer_ret = Ret("none", "none", <<>>, 0)
    /\ layer_arg = 0
    /\ returned = <<>>

NextLayer ==
    \/ Construct
    \/ KeyTable
    \/ ValueTable
    \/ Key
    \/ Value

SpecLayer == InitLayer /\ [][NextLayer]_vars

(***************************************************************************)
(* Properties of the layer reader                                          *)
(***************************************************************************)
KnownFields ==
    {<<"version", "varint">>, <<"name", "length_delimited">>,
     <<"features", "length_delimited">>, <<"keys", "length_delimited">>,
     <<"values", "length_delimited">>, <<"extent", "varint">>}

FieldsOf(d, tt) == {i \in 1..Len(d) : tag_and_type(d[i]) = tt}

AllKnown(d) == \A i \in 1..Len(d) : tag_and_type(d[i]) \in KnownFields

HasName(d) == FieldsOf(d, <<"name", "length_delimited">>) # {}

\* the version a record declares: that of its last version field, 1 without
VersionOf(d) ==
    LET at_ == FieldsOf(d, <<"version", "varint">>)
    IN IF at_ = {} THEN 1
       ELSE d[CHOOSE i \in at_ : \A j \in at_ : j <= i].varint

\* C8: a record of known fields whose version is neither 1 nor 2 is refused
\* with a version_exception that carries that version; a record whose
\* version is 1 or 2, or that has no version field, never is.
C8_VersionRejected ==
    layer_state # "unconstructed" =>
        /\ (AllKnown(m_data) /\ VersionOf(m_data) \notin {1, 2}) =>
              /\ layer_state = "version_exception"
              /\ thrown_version = VersionOf(m_data)
        /\ VersionOf(m_data) \in {1, 2} => layer_state # "version_exception"

C8_Witness ==
    /\ layer_state = "version_exception"
    /\ thrown_version = 3
    /\ HasName(m_data)

\* C9 as stated: a record with a field that is not one of the six known
\* ones, or without a name field, is refused with format_exception.
C9_AsStated ==
    (layer_state # "unconstructed" /\ (~AllKnown(m_data) \/ ~HasName(m_data))) =>
        layer_state = "format_exception"

\* C9, amended: a record with a field that is not one of the six known ones,
\* wherever it stands, is refused with format_exception; so is a record of
\* known fields without a name field, unless its version is neither 1 nor 2
\* (that record is refused with version_exception).
C9_FormatRejected ==
    layer_state # "unconstructed" =>
        /\ ~AllKnown(m_data) => layer_state = "format_exception"
        /\ (AllKnown(m_data) /\ ~HasName(m_data) /\ VersionOf(m_data) \in {1, 2}) =>
              layer_state = "format_exception"
        /\ (AllKnown(m_data) /\ ~HasName(m_data) /\ VersionOf(m_data) \notin {1, 2}) =>
              layer_state = "version_exception"

C9_Witness ==
    /\ layer_state = "format_exception"
    /\ AllKnown(m_data)
    /\ ~HasName(m_data)
    /\ Len(m_data) = MaxFields

\* the payloads of the fields of d with tag and type tt, in record order
PayloadsOf(d, tt) ==
    LET sel == SelectSeq(d, LAMBDA f : tag_and_type(f) = tt)
    IN [k \in 1..Len(sel) |-> sel[k].bytes]

\* C10: initialize_tables runs at most once on a layer; before it has run
\* both tables are empty, after it has run both tables hold exactly the keys
\* and the values of the record, whatever calls follow.
C10_TablesOnce ==
    layer_state = "valid" =>
        /\ table_passes <= 1
        /\ table_passes = 0 =>
              /\ layer.m_key_table = <<>>
              /\ layer.m_value_table = <<>>
        /\ table_passes = 1 =>
              /\ layer.m_key_table = PayloadsOf(m_data, <<"keys", "length_delimited">>)
              /\ layer.m_value_table = PayloadsOf(m_data, <<"values", "length_delimited">>)
              /\ layer.m_key_table_size = 0
              /\ layer.m_value_table_size = 0

C10_Witness ==
    /\ layer_state = "valid"
    /\ table_passes = 1
    /\ layer_ret.op = "value"
    /\ layer_ret.exc = "none"
    /\ Len(layer.m_key_table) >= 1
    /\ Len(layer.m_value_table) >= 1

\* C11: key_table() and value_table() return tables with exactly the keys
\* and the values of the record, in record order; key(i) returns the i-th
\* key for i below their number and fails with out_of_range otherwise, also
\* when the record has no key at all; value(j) likewise.
C11_Dictionaries ==
    layer_state = "valid" =>
        LET keys == PayloadsOf(m_data, <<"keys", "length_delimited">>)
            values == PayloadsOf(m_data, <<"values", "length_delimited">>)
        IN /\ layer_ret.op = "key_table" =>
                 /\ Len(layer.m_key_table) = Len(keys)
                 /\ layer.m_key_table = keys
           /\ layer_ret.op = "value_table" =>
                 /\ Len(layer.m_value_table) = Len(values)
                 /\ layer.m_value_table = values
           /\ layer_ret.op = "key" =>
                 IF layer_arg < Len(keys)
                 THEN layer_ret.exc = "none" /\ layer_ret.bytes = keys[layer_arg + 1]
                 ELSE layer_ret.exc = "out_of_range"
           /\ layer_ret.op = "value" =>
                 IF layer_arg < Len(values)
                 THEN layer_ret.exc = "none" /\ layer_ret.bytes = values[layer_arg + 1]
                 ELSE layer_ret.exc = "out_of_range"

C11_Witness ==
    /\ layer_state = "valid"
    /\ layer_ret.op = "key"
    /\ layer_arg = 1
    /\ layer_ret.exc = "none"
    /\ layer_ret.bytes = <<98>>
    /\ PayloadsOf(m_data, <<"keys", "length_delimited">>) = <<(<<97>>), (<<98>>)>>

\* C20 as stated: a layer that was constructed has a name of at least one
\* byte and an extent above 0.
C20_AsStated ==
    layer_state = "valid" =>
        /\ ~layer.m_name.null
        /\ layer.m_name.bytes # <<>>
        /\ layer.m_extent > 0

AccessorOps == {"key_table", "value_table", "key", "value"}

\* C27 as stated, for calls that run one after the other: once a first
\* key_table(), value_table(), key() or value() call has returned, a
\* further call of one of them writes nothing to the layer: it leaves the
\* two tables and their sizes as they are and does not run
\* initialize_tables.
C27_AsStated ==
    [][(/\ layer_state = "valid"
        /\ layer_ret.op \in AccessorOps
        /\ layer_ret.exc = "none"
        /\ layer_ret'.op \in AccessorOps) =>
           (layer' = layer /\ table_passes' = table_passes)]_vars


(***************************************************************************)
(* The specification of reading a layer's features                         *)
(***************************************************************************)
InitFeatures ==
    /\ NoGeometry
    /\ NoBuilder
    /\ m_data \in FeatureLayerRecords \cup {FeaturesLayer}
    /\ layer_state = "unconstructed"
    /\ thrown_version = 0
    /\ layer = NewLayer
    /\ table_passes = 0
    /\ layer_ret = Ret("none", "none", <<>>, 0)
    /\ layer_arg = 0
    /\ returned = <<>>

NextFeatures ==
    \/ Construct
    \/ NextFeature
    \/ ResetFeature
    \/ GetFeatureById
    \/ KeyTable
    \/ ValueTable
    \/ Key
    \/ Value

SpecFeatures == InitFeatures /\ [][NextFeatures]_vars

(***************************************************************************)
(* Properties of reading a layer's features                                *)
(***************************************************************************)
\* the places of the feature records of d, in record order
FeaturePlaces(d) ==
    SelectSeq([i \in 1..Len(d) |-> i],
              LAMBDA i : tag_and_type(d[i]) = <<"features", "length_delimited">>)

\* C12: with N feature records in the layer, num_features() is N, the k-th
\* call of next_feature() since construction (or since the last reset)
\* returns the k-th feature record for k <= N and the invalid feature for
\* every k > N: no record is skipped or returned twice.
C12_NextFeature ==
    layer_state = "valid" =>
        LET places == FeaturePlaces(m_data)
        IN /\ layer.m_num_features = Len(places)
           /\ \A k \in 1..Len(returned) :
                 returned[k] = IF k <= Len(places) THEN places[k] ELSE 0

C12_Witness ==
    /\ layer_state = "valid"
    /\ Len(returned) = 4
    /\ returned[1] # 0
    /\ returned[2] > returned[1] + 1
    /\ returned[3] = 0
    /\ returned[4] = 0

\* message msg has an id field with value id
HasId(msg, id) ==
    \E k \in 1..Len(msg) : tag_and_type(msg[k]) = <<"id", "varint">> /\ msg[k].varint = id

\* some feature record of d has an id field with value id
SomeFeatureHasId(d, id) ==
    \E i \in 1..Len(d) :
        /\ tag_and_type(d[i]) = <<"features", "length_delimited">>
        /\ HasId(d[i].msg, id)

\* C13 as stated: get_feature_by_id(id) returns a feature with an id field
\* of that value whenever some feature of the layer has one, and the
\* invalid feature otherwise.
C13_AsStated ==
    (layer_state = "valid" /\ layer_ret.op = "get_feature_by_id") =>
        IF SomeFeatureHasId(m_data, layer_arg)
        THEN /\ layer_ret.feature # 0
             /\ tag_and_type(m_data[layer_ret.feature]) = <<"features", "length_delimited">>
             /\ HasId(m_data[layer_ret.feature].msg, layer_arg)
        ELSE layer_ret.feature = 0

\* the first feature record of d, in record order, that has an id field
\* with value id (0 if there is none)
FirstFeatureWithId(d, id) ==
    LET s == {i \in 1..Len(d) :
                /\ tag_and_type(d[i]) = <<"features", "length_delimited">>
                /\ HasId(d[i].msg, id)}
    IN IF s = {} THEN 0 ELSE CHOOSE i \in s : \A j \in s : i <= j

\* C28 as stated: get_feature_by_id(id) returns the first feature record,
\* in record order, that carries an id field and whose id is the argument,
\* and the invalid feature when there is none; a feature record without an
\* id field is not returned for any argument, 0 included.
C28_AsStated ==
    layer_state = "valid" =>
        \A id \in LookupIds \cup {0} :
            get_feature_by_id(layer, m_data, id).feature = FirstFeatureWithId(m_data, id)

\* C14: a call other than next_feature() and reset_feature() leaves the
\* feature cursor where it was, whether it fails or not, and the feature
\* the next next_feature() call returns is the one it would have returned
\* before that call.
C14_CursorFrame ==
    [][(layer_state = "valid" /\ layer_ret'.op \notin {"next_feature", "reset_feature"}) =>
          /\ layer'.m_layer_reader = layer.m_layer_reader
          /\ next_feature(layer', m_data).feature = next_feature(layer, m_data).feature]_vars

C14_Witness ==
    /\ layer_state = "valid"
    /\ layer_ret.op = "get_feature_by_id"
    /\ returned # <<>>
    /\ returned[Len(returned)] # 0
    /\ layer.m_layer_reader = returned[Len(returned)]
    /\ layer_ret.feature > layer.m_layer_reader

\* the features the next_feature() calls on layer l return until the first
\* invalid one (at most n of them)
RECURSIVE FutureFeatures(_, _, _)
FutureFeatures(l, d, n) ==
    LET r == next_feature(l, d)
    IN IF n = 0 \/ r.feature = 0 THEN <<>>
       ELSE <<r.feature>> \o FutureFeatures(r.l, d, n - 1)

\* C21: reset_feature, called before the first next_feature, in the middle
\* or after the last feature, changes no member of the layer but the
\* reader, and the next_feature calls that follow return all feature
\* records of the layer from the first on, as on a layer just constructed.
C21_Reset ==
    [][(layer_state = "valid" /\ layer_ret'.op = "reset_feature") =>
          /\ \E reader \in 0..Len(m_data) : layer' = [layer EXCEPT !.m_layer_reader = reader]
          /\ FutureFeatures(layer', m_data, Len(m_data)) = FeaturePlaces(m_data)
          /\ FutureFeatures(layer', m_data, Len(m_data)) =
                FutureFeatures(layer_ctor(m_data).l, m_data, Len(m_data))
          /\ table_passes' = table_passes]_vars

C21_Witness ==
    /\ layer_state = "valid"
    /\ layer_ret.op = "reset_feature"
    /\ layer_arg = 1
    /\ layer.m_num_features = 3
    /\ layer.m_layer_reader = 0
    /\ Len(FutureFeatures(layer, m_data, Len(m_data))) = 3

(***************************************************************************)
(* The feature builder's specification                                     *)
(***************************************************************************)
InitBuilder ==
    /\ NoGeometry
    /\ NoLayer
    /\ lbuilder \in {[buffer |-> <<>>, num_features |-> 0],
                     [buffer |-> <<PriorFeature>>, num_features |-> 1]}
    /\ fbuilder = NoFeatureBuilder
    /\ buffer_before = <<>>
    /\ builder_ret = [op |-> "none", arg |-> 0, exc |-> "none"]
    /\ rings_given = <<>>

NextBuilder ==
    \/ FeatureBuilder
    \/ SetId
    \/ AddRing
    \/ SetPoint
    \/ CloseRing
    \/ AddRingRange
    \/ AddProperty
    \/ Commit
    \/ Drop

SpecBuilder == InitBuilder /\ [][NextBuilder]_vars

(***************************************************************************)
(* Properties of the feature builder                                       *)
(***************************************************************************)
\* C15: add_ring(n) opens a ring of exactly n points: every accepted
\* set_point takes one of them, close_ring the last one.  set_point and
\* close_ring while no ring is open (before the first add_ring or after the
\* last point of the ring), add_ring while the open ring lacks points,
\* add_ring(n) with n < 4 and add_ring over a range whose length is not the
\* stated count fail with an assert.
C15_RingAsserts ==
    [][fbuilder.alive =>
          LET op == builder_ret'.op
              exc == builder_ret'.exc
              arg == builder_ret'.arg
          IN /\ (op \in {"set_point", "close_ring"} /\ fbuilder.num_points = 0) =>
                    exc = "assert"
             /\ (op \in {"add_ring", "add_ring_range"} /\ fbuilder.num_points > 0) =>
                    exc = "assert"
             /\ (op \in {"add_ring", "add_ring_range"} /\ arg < 4) => exc = "assert"
             /\ (op = "add_ring_range" /\ \A r \in RingRanges : Len(r) # arg) =>
                    exc = "assert"
             /\ (op = "add_ring" /\ exc = "none") => fbuilder'.num_points = arg
             /\ (op = "set_point" /\ exc = "none") =>
                    fbuilder'.num_points = fbuilder.num_points - 1
             /\ (op = "close_ring" /\ exc = "none") =>
                    fbuilder.num_points = 1 /\ fbuilder'.num_points = 0
             /\ exc = "assert" => (fbuilder' = fbuilder /\ lbuilder' = lbuilder)]_vars

C15_Witness ==
    /\ fbuilder.alive
    /\ builder_ret.op = "close_ring"
    /\ builder_ret.exc = "assert"
    /\ fbuilder.num_rings = 1
    /\ fbuilder.num_points = 0
    /\ Len(current(lbuilder).geometry) > 0

\* C16 as stated: once a feature builder on which commit() did not succeed
\* is destroyed, the layer builder's buffer is what it was before the
\* feature builder was created and no feature has been counted for it.
C16_AsStated ==
    (~fbuilder.alive /\ fbuilder.stage \notin {"none", "COMMITTED"}) =>
        /\ lbuilder.buffer = buffer_before
        /\ lbuilder.num_features = Len(buffer_before)

\* C17: a polygon feature builder with a complete ring (and perhaps a
\* property) that is destroyed without commit() leaves its feature in the
\* layer: the buffer is the one before the builder was created followed by
\* one record with that ring and those tags, and the feature is counted,
\* as after an explicit commit().
C17_DestructorCommits ==
    (/\ ~fbuilder.alive
     /\ fbuilder.stage \in {"GEOMETRY", "PROPERTIES", "COMMITTED"}
     /\ fbuilder.num_points = 0) =>
        /\ Len(lbuilder.buffer) = Len(buffer_before) + 1
        /\ SubSeq(lbuilder.buffer, 1, Len(buffer_before)) = buffer_before
        /\ lbuilder.num_features = Len(buffer_before) + 1
        /\ LET g == current(lbuilder).geometry
           IN /\ Len(g) >= 4
              /\ g[1] = command_move_to(1)
              /\ g[Len(g)] = command_close_path(1)
        /\ fbuilder.stage = "GEOMETRY" => current(lbuilder).tags = <<>>
        /\ fbuilder.stage = "PROPERTIES" => current(lbuilder).tags # <<>>

C17_Witness ==
    /\ ~fbuilder.alive
    /\ fbuilder.stage = "PROPERTIES"
    /\ buffer_before = <<>>
    /\ lbuilder.num_features = 1
    /\ Len(lbuilder.buffer) = 1
    /\ current(lbuilder).id = 0
    /\ current(lbuilder).tags # <<>>

\* the place of a stage in INIT -> HAS_ID -> GEOMETRY -> PROPERTIES -> COMMITTED
StageRank(stage) ==
    CASE stage = "INIT" -> 0
      [] stage = "HAS_ID" -> 1
      [] stage = "GEOMETRY" -> 2
      [] stage = "PROPERTIES" -> 3
      [] stage = "COMMITTED" -> 4

GeometryOps == {"add_ring", "add_ring_range", "set_point", "close_ring"}

BuilderOps == GeometryOps \cup {"set_id", "add_property", "commit"}

\* C22: a call on a live feature builder asserts when it is out of the
\* order INIT -> [set_id] -> geometry -> add_property* -> commit: set_id
\* outside INIT (after a geometry operation, or a second set_id), a
\* geometry operation after add_property, add_property or commit before
\* any geometry operation, and every operation after commit; a call that
\* asserts changes nothing, and a call that is accepted never moves the
\* builder to an earlier stage.
C22_StageOrder ==
    [][(fbuilder.alive /\ builder_ret'.op \in BuilderOps) =>
          LET op == builder_ret'.op
              exc == builder_ret'.exc
              stage == fbuilder.stage
          IN /\ (op = "set_id" /\ stage # "INIT") => exc = "assert"
             /\ (op \in GeometryOps /\ stage = "PROPERTIES") => exc = "assert"
             /\ (op \in {"add_property", "commit"} /\ stage \in {"INIT", "HAS_ID"}) =>
                    exc = "assert"
             /\ stage = "COMMITTED" => exc = "assert"
             /\ exc = "assert" => (fbuilder' = fbuilder /\ lbuilder' = lbuilder)
             /\ exc = "none" =>
                    /\ StageRank(fbuilder'.stage) >= StageRank(stage)
                    /\ op = "set_id" => (stage = "INIT" /\ fbuilder'.stage = "HAS_ID")
                    /\ op \in GeometryOps => fbuilder'.stage = "GEOMETRY"
                    /\ op = "add_property" => fbuilder'.stage = "PROPERTIES"
                    /\ op = "commit" => fbuilder'.stage = "COMMITTED"]_vars

C22_Witness ==
    /\ fbuilder.alive
    /\ fbuilder.stage = "COMMITTED"
    /\ builder_ret.op = "set_id"
    /\ builder_ret.exc = "assert"
    /\ current(lbuilder).id = 17
    /\ current(lbuilder).tags # <<>>

====
